---- MODULE Spec2Model ----
(***************************************************************************)
(* The three SnipeIT modules of ansible-module-demo (snipeit_category,     *)
(* snipeit_model, snipeit_entry) and their shared lookups                  *)
(* (module_utils/snipeit.py), run one invocation after the other against   *)
(* one remote store.  Every HTTP request is one step; the remote service   *)
(* answers each request either normally or with an error envelope.         *)
(***************************************************************************)
EXTENDS Integers, Sequences, FiniteSets, TLC

VARIABLES
    store,   \* the remote SnipeIT database: categories, models, hardware
    store0,  \* the remote database as it was when the invocation started
    inv,     \* the running invocation: params, position, locals, requests
    prev,    \* summary of the invocation before, kept when params repeat
    runs     \* number of invocations started so far

vars == <<store, store0, inv, prev, runs>>

-----------------------------------------------------------------------------
(* Bounds and input universes *)

MaxRuns == 2

CategoryNames == {"laptops", "servers"}
ModelNames == {"thinkpad", "poweredge"}
AssetTags == {"example_asset001"}
StatusIds == {1, 2}
ManufacturerIds == {1}
ApiErrors == {"Server Error"}

\* module_args "choices" of category_type
CategoryTypes == {"asset", "accessory", "consumable", "component"}
\* module_args "choices" of state
States == {"present", "absent"}

\* Python's None for a returned record, for an int parameter and for a
\* str parameter that was not given (all three are falsy)
None == [none |-> TRUE]
NoManufacturer == 0
NoModelName == ""

\* the message SnipeIT gives for an asset tag that is not in the database
AssetDoesNotExist == "Asset does not exist."

-----------------------------------------------------------------------------
(* The remote service: the REST surface the modules talk to *)

ErrorEnvelope(m) == [status |-> "error", messages |-> m]
Success == [status |-> "success", messages |-> "ok"]

RECURSIVE RowsById(_)
\* a set of records (distinct ids) as the list the API returns, by id
RowsById(S) ==
    IF S = {} THEN <<>>
    ELSE LET r == CHOOSE x \in S : \A y \in S : x.id <= y.id
         IN  <<r>> \o RowsById(S \ {r})

ListEnvelope(S) == [total |-> Cardinality(S), rows |-> RowsById(S)]

\* GET /api/v1/categories?name=..&category_type=..: the rows that match
\* every filter the query gives
ApiGetCategories(s, query) ==
    ListEnvelope({c \in s.categories :
                     /\ "name" \in DOMAIN query => c.name = query.name
                     /\ "category_type" \in DOMAIN query
                            => c.category_type = query.category_type})

\* GET /api/v1/models?name=..
ApiGetModels(s, query) ==
    ListEnvelope({m \in s.models :
                     "name" \in DOMAIN query => m.name = query.name})

\* GET /api/v1/hardware/bytag/{asset_tag}
ApiGetByTag(s, asset_tag) ==
    LET found == {e \in s.hardware : e.asset_tag = asset_tag}
    IN  IF found = {} THEN ErrorEnvelope(AssetDoesNotExist)
        ELSE CHOOSE e \in found : \A y \in found : e.id <= y.id

\* POST /api/v1/categories
ApiPostCategory(s, payload) ==
    [s EXCEPT !.categories = @ \cup {[id |-> s.nextCategoryId,
                                      name |-> payload.name,
                                      category_type |-> payload.category_type]},
              !.nextCategoryId = @ + 1]

\* POST /api/v1/models; a payload without manufacturer_id stores none
ApiPostModel(s, payload) ==
    [s EXCEPT !.models = @ \cup {[id |-> s.nextModelId,
                                  name |-> payload.name,
                                  category_id |-> payload.category_id,
                                  manufacturer_id |->
                                      IF "manufacturer_id" \in DOMAIN payload
                                      THEN payload.manufacturer_id
                                      ELSE NoManufacturer]},
              !.nextModelId = @ + 1]

\* POST /api/v1/hardware
ApiPostHardware(s, payload) ==
    [s EXCEPT !.hardware = @ \cup {[id |-> s.nextHardwareId,
                                    asset_tag |-> payload.asset_tag,
                                    model |-> [id |-> payload.model_id],
                                    status_label |-> [id |-> payload.status_id]]},
              !.nextHardwareId = @ + 1]

\* PATCH /api/v1/hardware/{id}: only the fields of the payload change
ApiPatchHardware(s, id, payload) ==
    [s EXCEPT !.hardware =
        {IF e.id # id THEN e
         ELSE [e EXCEPT !.model = IF "model_id" \in DOMAIN payload
                                  THEN [id |-> payload.model_id] ELSE @,
                        !.status_label = IF "status_id" \in DOMAIN payload
                                         THEN [id |-> payload.status_id] ELSE @]
         : e \in @}]

\* DELETE /api/v1/hardware/{id}
ApiDeleteHardware(s, id) ==
    [s EXCEPT !.hardware = {e \in @ : e.id # id}]

\* what the service may answer to a read: the normal answer or an error
Answers(normal) == {normal} \cup {ErrorEnvelope(m) : m \in ApiErrors}

\* an answer to the bytag lookup may also be a body that is neither an
\* asset nor an error envelope
ByTagAnswers(normal) == Answers(normal) \cup {Success}

\* what the service may answer to a write
WriteAnswers == Answers(Success)

-----------------------------------------------------------------------------
(* How a Python call ends: it returns, calls module.fail_json or raises *)

Return(v) == [kind |-> "return", value |-> v]
Request == [kind |-> "request"]
FailJson(prefix, text) == [kind |-> "fail_json", msg |-> [prefix |-> prefix, text |-> text]]
Raise(type) == [kind |-> "exception", type |-> type]

-----------------------------------------------------------------------------
(* module_utils/snipeit.py: the lookups, applied to the parsed response *)

\* get_category that leaves category_type out of the query
get_category_params_name_only(name, category_type) == [name |-> name]

\* get_category: the query string
get_category_params(name, category_type) ==
    [name |-> name, category_type |-> category_type]

\* get_model: the query string
get_model_params(name) == [name |-> name]

\* data["total"] raises KeyError on a body without "total"
get_category(data) ==
    IF "total" \notin DOMAIN data THEN Raise("KeyError")
    ELSE IF data.total = 0 THEN Return(None)
    ELSE Return(data.rows[1])

get_model(data) ==
    IF "total" \notin DOMAIN data THEN Raise("KeyError")
    ELSE IF data.total = 0 THEN Return(None)
    ELSE Return(data.rows[1])

\* get_entry that takes every error envelope for "not found"
get_entry_any_error_is_absence(data) ==
    IF "asset_tag" \in DOMAIN data THEN Return(data)
    ELSE IF data.status = "error" THEN Return(None)
    ELSE FailJson("Unknown response from SnipeIT", "")

get_entry(data) ==
    IF "asset_tag" \in DOMAIN data THEN Return(data)
    ELSE IF data.status = "error" /\ data.messages = AssetDoesNotExist
         THEN Return(None)
    ELSE IF data.status = "error"
         THEN FailJson("Error retrieving entry: ", data.messages)
    ELSE FailJson("Unknown response from SnipeIT", "")

-----------------------------------------------------------------------------
(* The modules' functions between the lookup and the request: what they     *)
(* return without a request, or that they go on to the request              *)

\* create_category without the "if category: return False"
create_category_unchecked(category, dry_run) ==
    IF dry_run THEN Return(category = None)
    ELSE Request

\* snipeit_category.py create_category
create_category(category, dry_run) ==
    IF category # None THEN Return(FALSE)
    ELSE IF dry_run THEN Return(TRUE)
    ELSE Request

\* create_model without the "if not model and dry_run: return True"
create_model_ignoring_dry_run(model, dry_run) ==
    IF model # None THEN Return(FALSE)
    ELSE Request

\* snipeit_model.py create_model
create_model(model, dry_run) ==
    IF model # None THEN Return(FALSE)
    ELSE IF dry_run THEN Return(TRUE)
    ELSE Request

\* create_model that leaves manufacturer_id out of the payload
create_model_payload_without_manufacturer(name, category_id, manufacturer_id) ==
    [name |-> name, category_id |-> category_id]

\* snipeit_model.py create_model: manufacturer_id only when truthy
create_model_payload(name, category_id, manufacturer_id) ==
    IF manufacturer_id # NoManufacturer
    THEN [name |-> name, category_id |-> category_id,
          manufacturer_id |-> manufacturer_id]
    ELSE [name |-> name, category_id |-> category_id]

\* create_entry without the "if entry: return False" of an existing entry
create_entry_unchecked(entry, dry_run) ==
    IF dry_run THEN Return(entry = None)
    ELSE Request

\* snipeit_entry.py create_entry
create_entry(entry, dry_run) ==
    IF entry # None THEN Return(FALSE)
    ELSE IF dry_run THEN Return(TRUE)
    ELSE Request

\* snipeit_entry.py delete_entry
delete_entry(entry, dry_run) ==
    IF entry = None THEN Return(FALSE)
    ELSE IF dry_run THEN Return(TRUE)
    ELSE Request

\* update_entry_model without the comparison of the stored model id
update_entry_model_always(entry, model_id, dry_run) ==
    IF entry = None THEN Raise("TypeError")
    ELSE IF dry_run THEN Return(TRUE)
    ELSE Request

\* snipeit_entry.py update_entry_model: entry["model"] on None raises
update_entry_model(entry, model_id, dry_run) ==
    IF entry = None THEN Raise("TypeError")
    ELSE IF entry.model.id = model_id THEN Return(FALSE)
    ELSE IF dry_run THEN Return(TRUE)
    ELSE Request

\* snipeit_entry.py update_entry_status_label
update_entry_status_label(entry, status_id, dry_run) ==
    IF entry = None THEN Raise("TypeError")
    ELSE IF entry.status_label.id = status_id THEN Return(FALSE)
    ELSE IF dry_run THEN Return(TRUE)
    ELSE Request

\* verify_params that asks for model_name whatever the state
verify_params_any_state(params) ==
    IF params.model_name = NoModelName
    THEN FailJson("model_name is required when state is present", "")
    ELSE Return(None)

\* run_module without the verify_params(module) call
verify_params_skipped(params) == Return(None)

\* snipeit_entry.py verify_params
verify_params(params) ==
    IF params.state = "present" /\ params.model_name = NoModelName
    THEN FailJson("model_name is required when state is present", "")
    ELSE Return(None)

\* snipeit_entry.py run_module: "update_entry_model(...) or changed" calls
\* the function whatever changed is
update_entry_model_called(changed) == TRUE

\* "changed or update_entry_status_label(...)": Python skips the call once
\* changed is true
update_entry_status_label_called_unless_changed(changed) == ~changed

\* snipeit_entry.py run_module: "update_entry_status_label(...) or changed"
update_entry_status_label_called(changed) == TRUE

-----------------------------------------------------------------------------
(* Invocations: the parameters a playbook can pass *)

CategoryParams ==
    [module : {"snipeit_category"}, name : CategoryNames,
     category_type : CategoryTypes]

ModelParams ==
    [module : {"snipeit_model"}, name : ModelNames, category : CategoryNames,
     manufacturer_id : {NoManufacturer} \cup ManufacturerIds, dry_run : BOOLEAN]

EntryParams ==
    [module : {"snipeit_entry"}, asset_tag : AssetTags, status_id : StatusIds,
     model_name : {NoModelName} \cup ModelNames, state : States,
     check_mode : BOOLEAN]

Params == CategoryParams \cup ModelParams \cup EntryParams

NoParams == [module |-> "none"]

\* the dry-run flag of an invocation; snipeit_category runs create_category
\* with dry_run=False and does not support check mode
DryRun(p) ==
    IF p.module = "snipeit_model" THEN p.dry_run
    ELSE IF p.module = "snipeit_entry" THEN p.check_mode
    ELSE FALSE

\* the parameters with the dry-run flag taken out
Desired(p) ==
    IF p.module = "snipeit_model" THEN [p EXCEPT !.dry_run = FALSE]
    ELSE IF p.module = "snipeit_entry" THEN [p EXCEPT !.check_mode = FALSE]
    ELSE p

-----------------------------------------------------------------------------
(* The remote store at the start: a consistent database over a small       *)
(* catalog.  A model's category exists; an entry's model exists.  The       *)
(* entry module never reads categories, so databases that hold an entry     *)
(* are taken with the full category catalog only.                           *)

SeedCategoryRows ==
    {[id |-> 1, name |-> "laptops", category_type |-> "asset"],
     [id |-> 2, name |-> "laptops", category_type |-> "accessory"],
     [id |-> 3, name |-> "servers", category_type |-> "asset"]}

SeedModelRows ==
    {[id |-> 1, name |-> "thinkpad", category_id |-> c, manufacturer_id |-> f] :
        c \in {1, 3}, f \in {NoManufacturer} \cup ManufacturerIds}
    \cup {[id |-> 2, name |-> "poweredge", category_id |-> 3,
           manufacturer_id |-> NoManufacturer]}

\* at most one record per natural key, every category_id in the database
SeedModelSets(categories) ==
    {ms \in SUBSET SeedModelRows :
        /\ \A m, n \in ms : m.name = n.name => m = n
        /\ \A m \in ms : \E c \in categories : c.id = m.category_id}

SeedHardwareSets(categories, models) ==
    {{}} \cup {{[id |-> 1, asset_tag |-> t, model |-> [id |-> m.id],
                 status_label |-> [id |-> 1]]} :
                  t \in AssetTags,
                  m \in IF categories = SeedCategoryRows THEN models ELSE {}}

SeedStores ==
    UNION {UNION {{[categories |-> cs, models |-> ms, hardware |-> hs,
                    nextCategoryId |-> 4, nextModelId |-> 3,
                    nextHardwareId |-> 2] :
                      hs \in SeedHardwareSets(cs, ms)} :
                  ms \in SeedModelSets(cs)} :
           cs \in SUBSET SeedCategoryRows}

-----------------------------------------------------------------------------
(* State of one invocation *)

NoResult == [none |-> TRUE]
NoPrev == [valid |-> FALSE]

Idle ==
    [params |-> NoParams, pc |-> "done", outcome |-> "none",
     result |-> NoResult, changed |-> FALSE, category_id |-> 0,
     model |-> None, entry |-> None, log |-> <<>>]

Init ==
    /\ store \in SeedStores
    /\ store0 = store
    /\ inv = Idle
    /\ prev = NoPrev
    /\ runs = 0

\* one HTTP request of the log
\* (error: the messages of an error envelope; normal: the service answered
\* from its database, the error envelope of a missing asset tag included)
Req(method, url, payload, data, normal) ==
    [method |-> method, url |-> url, payload |-> payload,
     error |-> IF "status" \in DOMAIN data /\ data.status = "error"
               THEN data.messages ELSE "",
     normal |-> data = normal]

Logged(i, r) == [i EXCEPT !.log = Append(@, r)]

\* the process ends: locals are gone, the outcome stays
Ended(i, outcome, result) ==
    [i EXCEPT !.pc = "done", !.outcome = outcome, !.result = result,
              !.category_id = 0, !.model = None, !.entry = None]

\* module.exit_json(**result)
ExitJson(i, result) == Ended([i EXCEPT !.changed = result.changed], "exit_json", result)
\* module.fail_json(msg=...)
Failed(i, msg) == Ended(i, "fail_json", [msg |-> msg])
\* an exception nobody catches
Raised(i, type) == Ended(i, "exception", [exception |-> type])

\* a call that did not return ends the invocation
Aborted(i, r) ==
    IF r.kind = "fail_json" THEN Failed(i, r.msg) ELSE Raised(i, r.type)

Mutating == {"POST", "PATCH", "DELETE"}
Mutations(log) == {k \in 1..Len(log) : log[k].method \in Mutating}
Faults(log) == {k \in 1..Len(log) : ~log[k].normal}

\* the records of s with a natural key
CategoriesOf(s, name, category_type) ==
    {c \in s.categories : c.name = name /\ c.category_type = category_type}
ModelsNamed(s, name) == {m \in s.models : m.name = name}
EntriesTagged(s, asset_tag) == {e \in s.hardware : e.asset_tag = asset_tag}

\* whether the record the invocation is about is missing from s
KeyAbsent(s, p) ==
    IF p.module = "snipeit_category"
    THEN CategoriesOf(s, p.name, p.category_type) = {}
    ELSE IF p.module = "snipeit_model" THEN ModelsNamed(s, p.name) = {}
    ELSE EntriesTagged(s, p.asset_tag) = {}

\* whether what the invocation looks up before it creates is in s
Prerequisites(s, p) ==
    IF p.module = "snipeit_model"
    THEN CategoriesOf(s, p.category, "asset") # {}
    ELSE IF p.module = "snipeit_entry"
    THEN p.state = "present" => ModelsNamed(s, p.model_name) # {}
    ELSE TRUE

\* what is remembered of an invocation when the next repeats its request
Summary(i, s0, s) ==
    [valid |-> TRUE, dry |-> DryRun(i.params), outcome |-> i.outcome,
     changed |-> i.changed, absent0 |-> KeyAbsent(s0, i.params),
     prerequisites0 |-> Prerequisites(s0, i.params),
     clean |-> Faults(i.log) = {}, mutations |-> Cardinality(Mutations(i.log)),
     unchanged |-> s = s0]

-----------------------------------------------------------------------------
(* Start of an invocation: AnsibleModule(...) and, for snipeit_entry,       *)
(* verify_params and the branch on state                                    *)

RunModule(p) ==
    /\ inv.pc = "done"
    /\ runs < MaxRuns
    /\ runs' = runs + 1
    /\ store0' = store
    /\ store' = store
    /\ prev' = IF Desired(inv.params) = Desired(p)
               THEN Summary(inv, store0, store) ELSE NoPrev
    /\ LET i == [Idle EXCEPT !.params = p, !.outcome = "running"]
       IN  inv' =
             IF p.module = "snipeit_category" THEN [i EXCEPT !.pc = "create_category"]
             ELSE IF p.module = "snipeit_model" THEN [i EXCEPT !.pc = "get_category"]
             ELSE IF verify_params(p).kind # "return" THEN Aborted(i, verify_params(p))
             ELSE IF p.state = "absent" THEN [i EXCEPT !.pc = "delete_entry"]
             ELSE [i EXCEPT !.pc = "get_model"]

-----------------------------------------------------------------------------
(* snipeit_category.py *)

\* create_category: the lookup and the early returns
CreateCategoryLookup ==
    /\ inv.pc = "create_category"
    /\ LET p == inv.params
           q == get_category_params(p.name, p.category_type)
           normal == ApiGetCategories(store, q)
       IN  \E data \in Answers(normal) :
             LET i == Logged(inv, Req("GET", [path |-> "categories"], q, data, normal))
                 found == get_category(data)
                 r == create_category(found.value, FALSE)
             IN  inv' = IF found.kind # "return" THEN Aborted(i, found)
                        ELSE IF r.kind = "return"
                        THEN [i EXCEPT !.changed = r.value, !.pc = "category_id"]
                        ELSE [i EXCEPT !.pc = "create_category_post"]
    /\ UNCHANGED <<store, store0, prev, runs>>

\* create_category: the POST
CreateCategoryPost ==
    /\ inv.pc = "create_category_post"
    /\ LET p == inv.params
           payload == [name |-> p.name, category_type |-> p.category_type]
       IN  \E data \in WriteAnswers :
             LET i == Logged(inv, Req("POST", [path |-> "categories"], payload,
                                      data, Success))
             IN  IF data.status = "error"
                 THEN /\ inv' = Failed(i, [prefix |-> "Error creating category: ",
                                           text |-> data.messages])
                      /\ store' = store
                 ELSE /\ inv' = [i EXCEPT !.changed = TRUE, !.pc = "category_id"]
                      /\ store' = ApiPostCategory(store, payload)
    /\ UNCHANGED <<store0, prev, runs>>

\* run_module: result["category_id"] = get_category(...)["id"], exit_json
CategoryId ==
    /\ inv.pc = "category_id"
    /\ LET p == inv.params
           q == get_category_params(p.name, p.category_type)
           normal == ApiGetCategories(store, q)
       IN  \E data \in Answers(normal) :
             LET i == Logged(inv, Req("GET", [path |-> "categories"], q, data, normal))
                 found == get_category(data)
             IN  inv' = IF found.kind # "return" THEN Aborted(i, found)
                        ELSE IF found.value = None THEN Raised(i, "TypeError")
                        ELSE ExitJson(i, [changed |-> i.changed,
                                          category_id |-> found.value.id])
    /\ UNCHANGED <<store, store0, prev, runs>>

-----------------------------------------------------------------------------
(* snipeit_model.py *)

\* run_module: the category of type "asset" must exist
ModelGetCategory ==
    /\ inv.pc = "get_category"
    /\ LET p == inv.params
           q == get_category_params(p.category, "asset")
           normal == ApiGetCategories(store, q)
       IN  \E data \in Answers(normal) :
             LET i == Logged(inv, Req("GET", [path |-> "categories"], q, data, normal))
                 found == get_category(data)
             IN  inv' = IF found.kind # "return" THEN Aborted(i, found)
                        ELSE IF found.value = None
                        THEN Failed(i, [prefix |-> "Category not found!",
                                        text |-> p.category])
                        ELSE [i EXCEPT !.category_id = found.value.id,
                                       !.pc = "create_model"]
    /\ UNCHANGED <<store, store0, prev, runs>>

\* create_model: the lookup and the early returns; run_module exits
CreateModelLookup ==
    /\ inv.pc = "create_model"
    /\ LET p == inv.params
           q == get_model_params(p.name)
           normal == ApiGetModels(store, q)
       IN  \E data \in Answers(normal) :
             LET i == Logged(inv, Req("GET", [path |-> "models"], q, data, normal))
                 found == get_model(data)
                 r == create_model(found.value, p.dry_run)
             IN  inv' = IF found.kind # "return" THEN Aborted(i, found)
                        ELSE IF r.kind = "return"
                        THEN ExitJson(i, [changed |-> r.value])
                        ELSE [i EXCEPT !.pc = "create_model_post"]
    /\ UNCHANGED <<store, store0, prev, runs>>

\* create_model: the POST; run_module exits
CreateModelPost ==
    /\ inv.pc = "create_model_post"
    /\ LET p == inv.params
           payload == create_model_payload(p.name, inv.category_id, p.manufacturer_id)
       IN  \E data \in WriteAnswers :
             LET i == Logged(inv, Req("POST", [path |-> "models"], payload,
                                      data, Success))
             IN  IF data.status = "error"
                 THEN /\ inv' = Failed(i, [prefix |-> "Error creating model: ",
                                           text |-> data.messages])
                      /\ store' = store
                 ELSE /\ inv' = ExitJson(i, [changed |-> TRUE])
                      /\ store' = ApiPostModel(store, payload)
    /\ UNCHANGED <<store0, prev, runs>>

-----------------------------------------------------------------------------
(* snipeit_entry.py *)

ByTag(asset_tag) == [path |-> "hardware/bytag", asset_tag |-> asset_tag]
Hardware(id) == [path |-> "hardware", id |-> id]

\* the get_entry(...) call every function of the module starts with
EntryLookup(i, data, normal) ==
    Logged(i, Req("GET", ByTag(i.params.asset_tag), <<>>, data, normal))

\* run_module after create_entry returned: on to update_entry_model, then
\* update_entry_status_label, then exit_json
AfterCreateEntry(i) ==
    IF update_entry_model_called(i.changed)
    THEN [i EXCEPT !.pc = "update_entry_model"]
    ELSE IF update_entry_status_label_called(i.changed)
    THEN [i EXCEPT !.pc = "update_entry_status_label"]
    ELSE ExitJson(i, [changed |-> i.changed])

AfterUpdateEntryModel(i) ==
    IF update_entry_status_label_called(i.changed)
    THEN [i EXCEPT !.pc = "update_entry_status_label"]
    ELSE ExitJson(i, [changed |-> i.changed])

\* delete_entry: the lookup and the early returns; run_module exits
DeleteEntryLookup ==
    /\ inv.pc = "delete_entry"
    /\ LET p == inv.params
           normal == ApiGetByTag(store, p.asset_tag)
       IN  \E data \in ByTagAnswers(normal) :
             LET i == EntryLookup(inv, data, normal)
                 found == get_entry(data)
                 r == delete_entry(found.value, p.check_mode)
             IN  inv' = IF found.kind # "return" THEN Aborted(i, found)
                        ELSE IF r.kind = "return"
                        THEN ExitJson(i, [changed |-> r.value])
                        ELSE [i EXCEPT !.entry = found.value,
                                       !.pc = "delete_entry_request"]
    /\ UNCHANGED <<store, store0, prev, runs>>

\* delete_entry: the DELETE; run_module exits
DeleteEntryRequest ==
    /\ inv.pc = "delete_entry_request"
    /\ \E data \in WriteAnswers :
         LET i == Logged(inv, Req("DELETE", Hardware(inv.entry.id), <<>>,
                                  data, Success))
         IN  IF data.status = "error"
             THEN /\ inv' = Failed(i, [prefix |-> "Error deleting entry: ",
                                       text |-> data.messages])
                  /\ store' = store
             ELSE /\ inv' = ExitJson(i, [changed |-> TRUE])
                  /\ store' = ApiDeleteHardware(store, inv.entry.id)
    /\ UNCHANGED <<store0, prev, runs>>

\* run_module: the model named model_name must exist
EntryGetModel ==
    /\ inv.pc = "get_model"
    /\ LET p == inv.params
           q == get_model_params(p.model_name)
           normal == ApiGetModels(store, q)
       IN  \E data \in Answers(normal) :
             LET i == Logged(inv, Req("GET", [path |-> "models"], q, data, normal))
                 found == get_model(data)
             IN  inv' = IF found.kind # "return" THEN Aborted(i, found)
                        ELSE IF found.value = None
                        THEN Failed(i, [prefix |-> "Model does not exist",
                                        text |-> p.model_name])
                        ELSE [i EXCEPT !.model = found.value, !.pc = "create_entry"]
    /\ UNCHANGED <<store, store0, prev, runs>>

\* create_entry: the lookup and the early returns
CreateEntryLookup ==
    /\ inv.pc = "create_entry"
    /\ LET p == inv.params
           normal == ApiGetByTag(store, p.asset_tag)
       IN  \E data \in ByTagAnswers(normal) :
             LET i == EntryLookup(inv, data, normal)
                 found == get_entry(data)
                 r == create_entry(found.value, p.check_mode)
             IN  inv' = IF found.kind # "return" THEN Aborted(i, found)
                        ELSE IF r.kind = "return"
                        THEN AfterCreateEntry([i EXCEPT !.changed = r.value])
                        ELSE [i EXCEPT !.pc = "create_entry_post"]
    /\ UNCHANGED <<store, store0, prev, runs>>

\* create_entry: the POST
CreateEntryPost ==
    /\ inv.pc = "create_entry_post"
    /\ LET p == inv.params
           payload == [asset_tag |-> p.asset_tag, status_id |-> p.status_id,
                       model_id |-> inv.model.id]
       IN  \E data \in WriteAnswers :
             LET i == Logged(inv, Req("POST", [path |-> "hardware"], payload,
                                      data, Success))
             IN  IF data.status = "error"
                 THEN /\ inv' = Failed(i, [prefix |-> "Error creating entry: ",
                                           text |-> data.messages])
                      /\ store' = store
                 ELSE /\ inv' = AfterCreateEntry([i EXCEPT !.changed = TRUE])
                      /\ store' = ApiPostHardware(store, payload)
    /\ UNCHANGED <<store0, prev, runs>>

\* update_entry_model: the lookup and the early returns
UpdateEntryModelLookup ==
    /\ inv.pc = "update_entry_model"
    /\ LET p == inv.params
           normal == ApiGetByTag(store, p.asset_tag)
       IN  \E data \in ByTagAnswers(normal) :
             LET i == EntryLookup(inv, data, normal)
                 found == get_entry(data)
                 r == update_entry_model(found.value, inv.model.id, p.check_mode)
             IN  inv' = IF found.kind # "return" THEN Aborted(i, found)
                        ELSE IF r.kind = "return"
                        THEN AfterUpdateEntryModel(
                                 [i EXCEPT !.changed = r.value \/ @])
                        ELSE IF r.kind = "request"
                        THEN [i EXCEPT !.entry = found.value,
                                       !.pc = "update_entry_model_patch"]
                        ELSE Aborted(i, r)
    /\ UNCHANGED <<store, store0, prev, runs>>

\* update_entry_model: the PATCH
UpdateEntryModelPatch ==
    /\ inv.pc = "update_entry_model_patch"
    /\ LET payload == [model_id |-> inv.model.id]
       IN  \E data \in WriteAnswers :
             LET i == Logged(inv, Req("PATCH", Hardware(inv.entry.id), payload,
                                      data, Success))
             IN  IF data.status = "error"
                 THEN /\ inv' = Failed(i, [prefix |-> "Error updating entry: ",
                                           text |-> data.messages])
                      /\ store' = store
                 ELSE /\ inv' = AfterUpdateEntryModel(
                                    [i EXCEPT !.changed = TRUE, !.entry = None])
                      /\ store' = ApiPatchHardware(store, inv.entry.id, payload)
    /\ UNCHANGED <<store0, prev, runs>>

\* update_entry_status_label: the lookup and the early returns; run_module exits
UpdateEntryStatusLookup ==
    /\ inv.pc = "update_entry_status_label"
    /\ LET p == inv.params
           normal == ApiGetByTag(store, p.asset_tag)
       IN  \E data \in ByTagAnswers(normal) :
             LET i == EntryLookup(inv, data, normal)
                 found == get_entry(data)
                 r == update_entry_status_label(found.value, p.status_id, p.check_mode)
             IN  inv' = IF found.kind # "return" THEN Aborted(i, found)
                        ELSE IF r.kind = "return"
                        THEN ExitJson(i, [changed |-> r.value \/ i.changed])
                        ELSE IF r.kind = "request"
                        THEN [i EXCEPT !.entry = found.value,
                                       !.pc = "update_entry_status_label_patch"]
                        ELSE Aborted(i, r)
    /\ UNCHANGED <<store, store0, prev, runs>>

\* update_entry_status_label: the PATCH; run_module exits
UpdateEntryStatusPatch ==
    /\ inv.pc = "update_entry_status_label_patch"
    /\ LET payload == [status_id |-> inv.params.status_id]
       IN  \E data \in WriteAnswers :
             LET i == Logged(inv, Req("PATCH", Hardware(inv.entry.id), payload,
                                      data, Success))
             IN  IF data.status = "error"
                 THEN /\ inv' = Failed(i, [prefix |-> "Error updating entry: ",
                                           text |-> data.messages])
                      /\ store' = store
                 ELSE /\ inv' = ExitJson(i, [changed |-> TRUE])
                      /\ store' = ApiPatchHardware(store, inv.entry.id, payload)
    /\ UNCHANGED <<store0, prev, runs>>

-----------------------------------------------------------------------------

Next ==
    \/ \E p \in Params : RunModule(p)
    \/ CreateCategoryLookup
    \/ CreateCategoryPost
    \/ CategoryId
    \/ ModelGetCategory
    \/ CreateModelLookup
    \/ CreateModelPost
    \/ DeleteEntryLookup
    \/ DeleteEntryRequest
    \/ EntryGetModel
    \/ CreateEntryLookup
    \/ CreateEntryPost
    \/ UpdateEntryModelLookup
    \/ UpdateEntryModelPatch
    \/ UpdateEntryStatusLookup
    \/ UpdateEntryStatusPatch

Spec == Init /\ [][Next]_vars

-----------------------------------------------------------------------------
(* Properties *)

Done == inv.pc = "done" /\ inv.outcome # "none"
Clean == Faults(inv.log) = {}
Count(log, methods) == Cardinality({k \in 1..Len(log) : log[k].method \in methods})

\* the invocation repeats the request of the one before, both for real
RepeatsForReal == Done /\ prev.valid /\ ~prev.dry /\ ~DryRun(inv.params)

\* the invocation asks for its record to exist
AsksPresent ==
    inv.params.module = "snipeit_entry" => inv.params.state = "present"

\* C1: idempotence of create.  For each module, when the record is missing
\* at first and what it depends on exists, two successive real invocations
\* with the same parameters and no API error report changed=true, then
\* changed=false, and the second issues no POST, PATCH or DELETE.
C1_CreateIdempotent ==
    (RepeatsForReal /\ AsksPresent /\ prev.absent0 /\ prev.prerequisites0
        /\ prev.clean /\ Clean)
    => /\ prev.outcome = "exit_json" /\ prev.changed
       /\ inv.outcome = "exit_json" /\ ~inv.result.changed
       /\ Mutations(inv.log) = {}

C1_Witness ==
    /\ RepeatsForReal /\ prev.absent0 /\ prev.prerequisites0 /\ prev.clean /\ Clean
    /\ inv.params.module = "snipeit_entry" /\ inv.params.state = "present"
    /\ prev.changed /\ inv.outcome = "exit_json" /\ Len(inv.log) = 4

\* C2: dry-run never mutates remote state.  In every invocation whose
\* dry-run flag is set no POST, PATCH or DELETE is issued and the remote
\* store stays what it was at the start, whatever the service answers.
C2_DryRunFrame ==
    DryRun(inv.params) => /\ Mutations(inv.log) = {}
                          /\ store = store0

C2_Witness ==
    /\ Done /\ DryRun(inv.params) /\ inv.outcome = "exit_json"
    /\ inv.result.changed /\ store = store0
    /\ inv.params.module = "snipeit_entry" /\ inv.params.state = "absent"


\* the invocation is the real run of the request the dry run before made
RealAfterDry == Done /\ prev.valid /\ prev.dry /\ ~DryRun(inv.params)

\* C3: dry-run predicts the real outcome.  For the hardware-entry module,
\* from every remote state and for every desired entry, the check-mode
\* invocation ends normally and reports the changed value that the real
\* invocation with the same parameters reports from the same remote state.
C3_DryRunPredicts ==
    (RealAfterDry /\ inv.params.module = "snipeit_entry"
        /\ prev.clean /\ prev.unchanged /\ Clean /\ inv.outcome = "exit_json")
    => /\ prev.outcome = "exit_json"
       /\ prev.changed = inv.result.changed

\* a request the service answered with an error envelope that is not the
\* expected absence of a hardware entry
GenuineError(r) == r.error # "" /\ ~r.normal

\* C4: API errors are fatal and carry the original text.  Whenever a request
\* of any module is answered with an error envelope that is not the expected
\* absence of an entry, the invocation ends in fail_json with a message that
\* holds the envelope's messages, and no request follows the failing one.
C4_ApiErrorsFatal ==
    \A k \in 1..Len(inv.log) :
        GenuineError(inv.log[k])
        => /\ k = Len(inv.log)
           /\ inv.pc = "done"
           /\ inv.outcome = "fail_json"
           /\ inv.result.msg.text = inv.log[k].error

IsByTag(r) == r.method = "GET" /\ r.url.path = "hardware/bytag"
Absence(r) == r.normal /\ r.error = AssetDoesNotExist
Record(r) == r.normal /\ r.error = ""
EntryModule == inv.params.module = "snipeit_entry"

\* C5: the hardware lookup tells the expected absence from an API error.
\* A lookup answered with any error envelope but "Asset does not exist."
\* ends the invocation in fail_json with that text and nothing follows it
\* (no create in particular); a lookup answered with the absence or with
\* the record never ends the invocation in fail_json: the absence is "not
\* found" (create goes on to its POST, delete reports no change) and the
\* record is handed on (delete goes on to its DELETE with the record).
C5_AbsenceIsNotAnError ==
    \A k \in 1..Len(inv.log) :
        LET r == inv.log[k]
            last == k = Len(inv.log)
        IN  IsByTag(r) =>
            /\ GenuineError(r)
               => /\ last /\ inv.pc = "done" /\ inv.outcome = "fail_json"
                  /\ inv.result.msg = [prefix |-> "Error retrieving entry: ",
                                       text |-> r.error]
            /\ (Absence(r) \/ Record(r)) /\ last => inv.outcome # "fail_json"
            /\ Absence(r) /\ last /\ inv.params.state = "absent"
               => inv.outcome = "exit_json" /\ ~inv.result.changed
            /\ Absence(r) /\ last /\ k = 2 /\ ~inv.params.check_mode
               => inv.pc = "create_entry_post"
            /\ Record(r) /\ last /\ inv.params.state = "absent"
                  /\ ~inv.params.check_mode
               => /\ inv.pc = "delete_entry_request"
                  /\ inv.entry \in EntriesTagged(store, inv.params.asset_tag)

C5_Witness ==
    /\ EntryModule /\ inv.params.state = "present" /\ Len(inv.log) = 2
    /\ IsByTag(inv.log[2]) /\ GenuineError(inv.log[2])
    /\ inv.outcome = "fail_json"
    /\ EntriesTagged(store, inv.params.asset_tag) = {}


PresentForReal ==
    Done /\ EntryModule /\ inv.params.state = "present" /\ ~inv.params.check_mode

\* the entry and the model of the invocation as they were at its start
Entry0 == CHOOSE e \in EntriesTagged(store0, inv.params.asset_tag) : TRUE
Model0 == CHOOSE m \in ModelsNamed(store0, inv.params.model_name) : TRUE

\* the PATCH requests that carry a field
Patches(log, field) ==
    {k \in 1..Len(log) : log[k].method = "PATCH" /\ field \in DOMAIN log[k].payload}

\* C6: reconciliation of a hardware entry, state=present, real run, no API
\* error, model exists.  NOT_FOUND: exactly one POST, no PATCH, changed=true.
\* FOUND and same model and status: no POST, PATCH or DELETE, changed=false.
\* FOUND and different: no POST, one PATCH for each field that differs and
\* none for a field that matches, changed=true.  state=present never issues
\* a DELETE.
C6_EntryReconcile ==
    /\ (EntryModule /\ inv.params.state = "present")
       => Count(inv.log, {"DELETE"}) = 0
    /\ (PresentForReal /\ Clean /\ ModelsNamed(store0, inv.params.model_name) # {})
       => /\ inv.outcome = "exit_json"
          /\ IF EntriesTagged(store0, inv.params.asset_tag) = {}
             THEN /\ Count(inv.log, {"POST"}) = 1
                  /\ Count(inv.log, {"PATCH"}) = 0
                  /\ inv.result.changed
             ELSE LET mdiff == Entry0.model.id # Model0.id
                      sdiff == Entry0.status_label.id # inv.params.status_id
                  IN  /\ Count(inv.log, {"POST"}) = 0
                      /\ Cardinality(Patches(inv.log, "model_id"))
                            = IF mdiff THEN 1 ELSE 0
                      /\ Cardinality(Patches(inv.log, "status_id"))
                            = IF sdiff THEN 1 ELSE 0
                      /\ Count(inv.log, {"PATCH"})
                            = (IF mdiff THEN 1 ELSE 0) + (IF sdiff THEN 1 ELSE 0)
                      /\ \A k \in 1..Len(inv.log) :
                            inv.log[k].method = "PATCH"
                            => inv.log[k].url = Hardware(Entry0.id)
                      /\ inv.result.changed = (mdiff \/ sdiff)

C6_Witness ==
    /\ PresentForReal /\ Clean /\ inv.outcome = "exit_json"
    /\ EntriesTagged(store0, inv.params.asset_tag) # {}
    /\ ModelsNamed(store0, inv.params.model_name) # {}
    /\ Entry0.model.id = Model0.id
    /\ Entry0.status_label.id # inv.params.status_id
    /\ Count(inv.log, {"PATCH"}) = 1 /\ inv.result.changed

ModelModule == inv.params.module = "snipeit_model"

\* a real run of the model module that met no API error and found its category
ModelForReal ==
    /\ Done /\ ModelModule /\ ~inv.params.dry_run /\ Clean
    /\ CategoriesOf(store0, inv.params.category, "asset") # {}

Category0 == CHOOSE c \in CategoriesOf(store0, inv.params.category, "asset") : TRUE
StoredModel0 == CHOOSE m \in ModelsNamed(store0, inv.params.name) : TRUE

\* the stored model is not the desired one
ModelDiffers ==
    \/ StoredModel0.category_id # Category0.id
    \/ /\ inv.params.manufacturer_id # NoManufacturer
       /\ StoredModel0.manufacturer_id # inv.params.manufacturer_id

\* C7 as claimed: the model module updates on difference.  When the model is
\* found and its stored category_id (or requested manufacturer_id) differs,
\* a real run issues an update request with the desired payload and reports
\* changed=true; it reports no change only when the desired state matches.
C7_ModelUpdatedOnDifference ==
    (ModelForReal /\ ModelsNamed(store0, inv.params.name) # {})
    => /\ inv.outcome = "exit_json"
       /\ inv.result.changed = ModelDiffers
       /\ ModelDiffers
          => \E k \in 1..Len(inv.log) :
                /\ inv.log[k].method \in {"PATCH", "POST"}
                /\ inv.log[k].payload.category_id = Category0.id

\* C7 as amended: the model module only creates.  When a model with the
\* name is found, a real run issues no POST, PATCH or DELETE, leaves the
\* store alone and reports changed=false, whether or not the stored
\* category_id or manufacturer_id is the desired one; when none is found it
\* issues one POST with name, category_id and, if requested, manufacturer_id
\* and reports changed=true.
C7_ModelCreateOnly ==
    ModelForReal
    => /\ inv.outcome = "exit_json"
       /\ IF ModelsNamed(store0, inv.params.name) # {}
          THEN /\ ~inv.result.changed
               /\ Mutations(inv.log) = {}
               /\ store = store0
          ELSE /\ inv.result.changed
               /\ Count(inv.log, Mutating) = 1
               /\ LET r == inv.log[Len(inv.log)]
                  IN  /\ r.method = "POST" /\ r.url = [path |-> "models"]
                      /\ r.payload.name = inv.params.name
                      /\ r.payload.category_id = Category0.id
                      /\ inv.params.manufacturer_id # NoManufacturer
                         => /\ "manufacturer_id" \in DOMAIN r.payload
                            /\ r.payload.manufacturer_id = inv.params.manufacturer_id
               /\ \E m \in ModelsNamed(store, inv.params.name) :
                     /\ m.category_id = Category0.id
                     /\ m.manufacturer_id = inv.params.manufacturer_id

C7_Witness ==
    /\ ModelForReal /\ ModelsNamed(store0, inv.params.name) # {}
    /\ StoredModel0.category_id # Category0.id
    /\ inv.outcome = "exit_json" /\ ~inv.result.changed


AbsentRun == EntryModule /\ inv.params.state = "absent"
AbsentForReal == Done /\ AbsentRun /\ ~inv.params.check_mode

CategoryModule == inv.params.module = "snipeit_category"

\* C9: the category module always returns category_id.  Every invocation
\* that ends in exit_json, with changed=true or changed=false, reports the
\* id of the remote category whose (name, category_type) is the requested
\* pair.
C9_CategoryIdReturned ==
    (Done /\ CategoryModule /\ inv.outcome = "exit_json")
    => /\ "category_id" \in DOMAIN inv.result
       /\ \E c \in CategoriesOf(store, inv.params.name, inv.params.category_type) :
             c.id = inv.result.category_id

C9_Witness ==
    /\ Done /\ CategoryModule /\ inv.outcome = "exit_json"
    /\ inv.result.changed
    /\ inv.params.category_type = "accessory"
    /\ CategoriesOf(store0, inv.params.name, "asset") # {}
    /\ inv.result.category_id \notin {c.id : c \in store0.categories}

\* C10: one-run convergence of a hardware entry.  After a real invocation
\* with state=present that ends in exit_json, from any remote state, the
\* store holds an entry with the asset_tag whose model is the model named
\* model_name and whose status is status_id; the model step and the status
\* step both ran (each made its lookup), whatever the steps before reported.
C10_EntryConverges ==
    (PresentForReal /\ inv.outcome = "exit_json")
    => /\ \E e \in EntriesTagged(store, inv.params.asset_tag) :
             /\ \E m \in ModelsNamed(store, inv.params.model_name) :
                   e.model.id = m.id
             /\ e.status_label.id = inv.params.status_id
       /\ Cardinality({k \in 1..Len(inv.log) : IsByTag(inv.log[k])}) = 3

C10_Witness ==
    /\ PresentForReal /\ inv.outcome = "exit_json"
    /\ EntriesTagged(store0, inv.params.asset_tag) # {}
    /\ ModelsNamed(store0, inv.params.model_name) # {}
    /\ Entry0.model.id # Model0.id
    /\ Entry0.status_label.id # inv.params.status_id
    /\ Cardinality(Patches(inv.log, "model_id")) = 1
    /\ Cardinality(Patches(inv.log, "status_id")) = 1


\* what the invocation depends on is missing at its start
NoAssetCategory ==
    ModelModule /\ CategoriesOf(store0, inv.params.category, "asset") = {}
NoModelNameGiven ==
    /\ EntryModule /\ inv.params.state = "present"
    /\ inv.params.model_name = NoModelName
NoSuchModel ==
    /\ EntryModule /\ inv.params.state = "present"
    /\ inv.params.model_name # NoModelName
    /\ ModelsNamed(store0, inv.params.model_name) = {}

\* C11: a missing prerequisite fails before any mutation.  The model module
\* ends in fail_json naming the category when no category of type "asset"
\* has the given name, also when one of another type has it; the entry
\* module with state=present ends in fail_json when model_name is not given
\* (before any request) or when no model has that name.  In each case no
\* POST, PATCH or DELETE is issued and the remote store stays as it was.
\* (The fail_json of a lookup is that of a lookup the service answered from
\* its database.)
C11_MissingPrerequisiteFails ==
    /\ (NoAssetCategory \/ NoModelNameGiven \/ NoSuchModel)
       => /\ Mutations(inv.log) = {}
          /\ store = store0
    /\ (NoAssetCategory /\ Done /\ Clean)
       => /\ inv.outcome = "fail_json"
          /\ inv.result.msg = [prefix |-> "Category not found!",
                               text |-> inv.params.category]
          /\ Len(inv.log) = 1
    /\ NoModelNameGiven
       => /\ Done /\ inv.outcome = "fail_json"
          /\ inv.result.msg.prefix = "model_name is required when state is present"
          /\ inv.log = <<>>
    /\ (NoSuchModel /\ Done /\ Clean)
       => /\ inv.outcome = "fail_json"
          /\ inv.result.msg = [prefix |-> "Model does not exist",
                               text |-> inv.params.model_name]
          /\ Len(inv.log) = 1

C11_Witness ==
    /\ NoAssetCategory /\ Done /\ Clean /\ inv.outcome = "fail_json"
    /\ \E c \in store0.categories :
          c.name = inv.params.category /\ c.category_type # "asset"
    /\ ModelsNamed(store0, inv.params.name) = {}
    /\ ~inv.params.dry_run


\* no two records of s share a natural key
UniqueKeys(s) ==
    /\ \A c, d \in s.categories :
          (c.name = d.name /\ c.category_type = d.category_type) => c = d
    /\ \A m, n \in s.models : m.name = n.name => m = n
    /\ \A e, f \in s.hardware : e.asset_tag = f.asset_tag => e = f

\* C12: natural-key uniqueness is preserved by sequential use.  From a store
\* without two records of one natural key, after any sequence of invocations
\* of the three modules, each run to its end before the next (any
\* parameters, dry-run or not, API errors allowed), the store holds at most
\* one category per (name, category_type), one model per name and one entry
\* per asset_tag.  Categories of one name and different types are distinct
\* records that may both exist.
C12_UniqueNaturalKeys == UniqueKeys(store)

C12_Witness ==
    /\ Done /\ runs = MaxRuns /\ UniqueKeys(store)
    /\ store # store0
    /\ Cardinality(store.categories) > Cardinality(SeedCategoryRows)
    /\ \E c, d \in store.categories :
          c.name = d.name /\ c.category_type # d.category_type
    /\ store.models # {} /\ store.hardware # {}


-----------------------------------------------------------------------------
(* Two invocations of snipeit_category with the same (name, category_type)  *)
(* that run as separate processes against the one remote store.  Here inv   *)
(* holds one invocation record per process; each process makes the requests *)
(* of run_module in order, and the requests of the two interleave freely.   *)
(* The service accepts every POST; a GET may still be answered by an error. *)

Procs == {1, 2}

OverlapInit ==
    /\ store \in SeedStores
    /\ store0 = store
    /\ \E q \in CategoryParams :
          inv = [p \in Procs |->
                    [Idle EXCEPT !.params = q, !.outcome = "running",
                                 !.pc = "create_category"]]
    /\ prev = NoPrev
    /\ runs = Cardinality(Procs)

\* create_category: the lookup and the early returns, in process p
OverlapCreateCategoryLookup(p) ==
    /\ inv[p].pc = "create_category"
    /\ LET q == get_category_params(inv[p].params.name, inv[p].params.category_type)
           normal == ApiGetCategories(store, q)
       IN  \E data \in Answers(normal) :
             LET i == Logged(inv[p], Req("GET", [path |-> "categories"], q,
                                         data, normal))
                 found == get_category(data)
                 r == create_category(found.value, FALSE)
             IN  inv' = [inv EXCEPT ![p] =
                           IF found.kind # "return" THEN Aborted(i, found)
                           ELSE IF r.kind = "return"
                           THEN [i EXCEPT !.changed = r.value, !.pc = "category_id"]
                           ELSE [i EXCEPT !.pc = "create_category_post"]]
    /\ UNCHANGED <<store, store0, prev, runs>>

\* create_category: the POST, which the service accepts, in process p
OverlapCreateCategoryPost(p) ==
    /\ inv[p].pc = "create_category_post"
    /\ LET payload == [name |-> inv[p].params.name,
                       category_type |-> inv[p].params.category_type]
           i == Logged(inv[p], Req("POST", [path |-> "categories"], payload,
                                   Success, Success))
       IN  /\ inv' = [inv EXCEPT ![p] = [i EXCEPT !.changed = TRUE,
                                                  !.pc = "category_id"]]
           /\ store' = ApiPostCategory(store, payload)
    /\ UNCHANGED <<store0, prev, runs>>

\* run_module: result["category_id"] = get_category(...)["id"], in process p
OverlapCategoryId(p) ==
    /\ inv[p].pc = "category_id"
    /\ LET q == get_category_params(inv[p].params.name, inv[p].params.category_type)
           normal == ApiGetCategories(store, q)
       IN  \E data \in Answers(normal) :
             LET i == Logged(inv[p], Req("GET", [path |-> "categories"], q,
                                         data, normal))
                 found == get_category(data)
             IN  inv' = [inv EXCEPT ![p] =
                           IF found.kind # "return" THEN Aborted(i, found)
                           ELSE IF found.value = None THEN Raised(i, "TypeError")
                           ELSE ExitJson(i, [changed |-> i.changed,
                                             category_id |-> found.value.id])]
    /\ UNCHANGED <<store, store0, prev, runs>>

OverlapNext ==
    \E p \in Procs :
        \/ OverlapCreateCategoryLookup(p)
        \/ OverlapCreateCategoryPost(p)
        \/ OverlapCategoryId(p)

OverlapSpec == OverlapInit /\ [][OverlapNext]_vars

\* the categories with the key the two invocations ask for, and their POSTs
OverlapKey(s) ==
    CategoriesOf(s, inv[1].params.name, inv[1].params.category_type)
OverlapPosts(p) == Count(inv[p].log, {"POST"})
OverlapTotalPosts == OverlapPosts(1) + OverlapPosts(2)
OverlapBothExited == \A p \in Procs : inv[p].outcome = "exit_json"

\* C13 as claimed: two overlapping invocations do not duplicate a record.
\* With the GETs and POSTs of the two interleaved in any order and every
\* POST accepted, at most one POST is issued in total and the store ends
\* with exactly one category for the key.
C13_OverlapNoDuplicate ==
    /\ OverlapTotalPosts <= 1
    /\ OverlapBothExited => Cardinality(OverlapKey(store)) = 1

\* C13 as amended: each of the two overlapping invocations issues at most
\* one POST, and none when the key had a category at the start, so at most
\* two are issued in total; the store holds for the key the categories of
\* the start and one more per POST, which is one or two once both
\* invocations have ended in exit_json (two when both lookups were answered
\* before either POST), and each exit_json reports the id of one of them.
C13_OverlapAtMostTwo ==
    /\ \A p \in Procs : OverlapPosts(p) <= 1
    /\ OverlapKey(store0) # {} => OverlapTotalPosts = 0
    /\ Cardinality(OverlapKey(store))
          = Cardinality(OverlapKey(store0)) + OverlapTotalPosts
    /\ \A p \in Procs :
          inv[p].outcome = "exit_json"
          => /\ inv[p].result.changed = (OverlapPosts(p) = 1)
             /\ \E c \in OverlapKey(store) : c.id = inv[p].result.category_id
    /\ OverlapBothExited => Cardinality(OverlapKey(store)) \in {1, 2}

C13_Witness ==
    /\ OverlapBothExited
    /\ OverlapKey(store0) = {}
    /\ OverlapTotalPosts = 2
    /\ Cardinality(OverlapKey(store)) = 2
    /\ \A p \in Procs : inv[p].result.changed

====
